---- MODULE Spec2Model ----
(***************************************************************************)
(* A model of the cheerio PyPI crawler: the snapshot loader of the         *)
(* dependency graph (pypiquery/query.go, NewPyPIGraph), the requirement    *)
(* parser, the source-artifact selector, the crawl driver and its          *)
(* curl | tar pipeline (query.go, package main), the in-process tar.gz     *)
(* extractor (util/util.go) and the repository resolver (cheerio/repo.go). *)
(*                                                                         *)
(* Go strings are sequences of one-character strings.                      *)
(***************************************************************************)
EXTENDS Integers, Sequences, FiniteSets, TLC

VARIABLES
    \* parseRequirement
    reqStr, parseOut,
    \* lastTar
    files, tarPath,
    \* NewPyPIGraph: the two maps of the graph, the lines read so far, and
    \* whether the loader has returned
    Req, ReqBy, snapshot, loaded,
    \* remoteUntar: the response it is given, its position in the archive, its
    \* locals data and matched, its program counter and what it returned
    archive, tpos, data, matched, tpc, tout,
    \* FetchSourceRepoURI: its argument, what FetchRawMetadata gives it, and
    \* what it returned
    rpkg, rfetch, rout,
    \* main: its program counter, the package list, the index of the loop, the
    \* packages given to PackageRequirements so far, the two output streams,
    \* the exit status, and the record of the last package handled
    mpc, pkgs, idx, attempted, stdout, stderr, exitStatus, lastCall,
    \* one extraction of fetchRequires: the capacity of a pipe; what curl has
    \* still to write and whether it runs; the pipe curlOut; the copy task's
    \* position and the chunk it holds; whether the write end tarIn and the
    \* read end curlOut are open; the pipe into tar; whether tar runs and the
    \* output it has still to write; the pipe tarOut; the bytes ReadAll has
    \* gathered; the caller's position; the number of chunks of the source,
    \* the number forwarded to tar, and whether tar gave up early
    cap, src, curl, p1, cp, cbuf, inOpen, outOpen, p2, tar, tpend, p3,
    tarOutput, cpc, srcLen, forwarded, tarAborted

parseVars == <<reqStr, parseOut>>
lastTarVars == <<files, tarPath>>
graphVars == <<Req, ReqBy, snapshot, loaded>>
untarVars == <<archive, tpos, data, matched, tpc, tout>>
repoVars == <<rpkg, rfetch, rout>>
mainVars == <<mpc, pkgs, idx, attempted, stdout, stderr, exitStatus, lastCall>>
pipeVars == <<cap, src, curl, p1, cp, cbuf, inOpen, outOpen, p2, tar, tpend, p3,
              tarOutput, cpc, srcLen, forwarded, tarAborted>>
vars == <<reqStr, parseOut, files, tarPath, Req, ReqBy, snapshot, loaded,
          archive, tpos, data, matched, tpc, tout, rpkg, rfetch, rout,
          mpc, pkgs, idx, attempted, stdout, stderr, exitStatus, lastCall,
          cap, src, curl, p1, cp, cbuf, inOpen, outOpen, p2, tar, tpend, p3,
          tarOutput, cpc, srcLen, forwarded, tarAborted>>

\* what each operation leaves alone: the state of the other operations
OthersParse == <<lastTarVars, graphVars, untarVars, repoVars, mainVars, pipeVars>>
OthersLastTar == <<parseVars, graphVars, untarVars, repoVars, mainVars, pipeVars>>
OthersGraph == <<parseVars, lastTarVars, untarVars, repoVars, mainVars, pipeVars>>
OthersUntar == <<parseVars, lastTarVars, graphVars, repoVars, mainVars, pipeVars>>
OthersRepo == <<parseVars, lastTarVars, graphVars, untarVars, mainVars, pipeVars>>
OthersCrawl == <<parseVars, lastTarVars, graphVars, untarVars, repoVars>>

----------------------------------------------------------------------------
(* Bounds *)

\* longest requirement line given to parseRequirement
MaxReqLen == 6
\* longest file list given to lastTar
MaxFiles == 3
\* longest snapshot line, and most lines of a snapshot
MaxLineLen == 3
MaxLines == 2
\* most entries of an archive given to remoteUntar
MaxEntries == 2
\* most lines of a PKG-INFO text given to FetchSourceRepoURI
MaxMetaLines == 2
\* most packages of a listing, most chunks of a download, and the largest
\* capacity of a pipe, in chunks
MaxPkgs == 2
MaxSrc == 3
MaxCap == 2

----------------------------------------------------------------------------
(* Strings *)

\* the characters of [A-Za-z0-9\._-]: a letter and a digit-or-dot stand for them
NameChars == {"a", "1"}
\* the characters of [0-9\.]
VersionChars == {"1"}
\* the characters \s matches and strings.TrimSpace strips
SpaceChars == {" ", "\n"}

\* all sequences over S of length 0..n
SeqsUpTo(S, n) == UNION {[1..k -> S] : k \in 0..n}

\* s[i..j-1]
Slice(s, i, j) == SubSeq(s, i, j - 1)

\* the end (exclusive) of the longest run of characters of S that starts at i:
\* what a greedy x* consumes
RunEnd(s, i, S) ==
    CHOOSE j \in i..(Len(s) + 1) :
        /\ \A k \in i..(j - 1) : s[k] \in S
        /\ (j = Len(s) + 1 \/ s[j] \notin S)

\* whether literal lit occurs in s at position i
HasAt(s, i, lit) ==
    /\ i + Len(lit) - 1 <= Len(s)
    /\ \A k \in 1..Len(lit) : s[i + k - 1] = lit[k]

TrimSpace(s) ==
    IF \A k \in 1..Len(s) : s[k] \in SpaceChars THEN <<>>
    ELSE LET lo == CHOOSE i \in 1..Len(s) :
                      s[i] \notin SpaceChars /\ \A k \in 1..(i - 1) : s[k] \in SpaceChars
             hi == CHOOSE i \in 1..Len(s) :
                      s[i] \notin SpaceChars /\ \A k \in (i + 1)..Len(s) : s[k] \in SpaceChars
         IN  SubSeq(s, lo, hi)

----------------------------------------------------------------------------
(* requirementRegexp and parseRequirement *)

\* the alternatives of (==|>=|>), in the order the regexp tries them
ConstraintOps == << <<"=", "=">>, <<">", "=">>, <<">">> >>

\* (?:(==|>=|>)\s*([0-9\.]+))? at position i: the first alternative for which
\* the whole group matches, or no match (the group is optional)
ConstraintAt(s, i) ==
    LET good(n) == /\ HasAt(s, i, ConstraintOps[n])
                   /\ LET v == RunEnd(s, i + Len(ConstraintOps[n]), SpaceChars)
                      IN  RunEnd(s, v, VersionChars) > v
        alts == {n \in 1..Len(ConstraintOps) : good(n)}
    IN  IF alts = {} THEN [end |-> i, op |-> <<>>, version |-> <<>>]
        ELSE LET n == CHOOSE m \in alts : \A k \in alts : m <= k
                 v == RunEnd(s, i + Len(ConstraintOps[n]), SpaceChars)
                 e == RunEnd(s, v, VersionChars)
             IN  [end |-> e, op |-> ConstraintOps[n], version |-> Slice(s, v, e)]

\* (?:\[([A-Za-z0-9\._-]+)\])? at position i
ExtraAt(s, i) ==
    IF HasAt(s, i, <<"[">>)
       /\ RunEnd(s, i + 1, NameChars) > i + 1
       /\ HasAt(s, RunEnd(s, i + 1, NameChars), <<"]">>)
    THEN [end |-> RunEnd(s, i + 1, NameChars) + 1,
          extra |-> Slice(s, i + 1, RunEnd(s, i + 1, NameChars))]
    ELSE [end |-> i, extra |-> <<>>]

\* requirementRegexp.FindStringSubmatch(s): the leftmost match, greedy, as the
\* five submatches (whole, name, extra, constraint, version), or <<>> (nil)
\* when the regexp matches nowhere
FindStringSubmatch(s) ==
    LET starts == {i \in 1..Len(s) : s[i] \in NameChars}
    IN  IF starts = {} THEN <<>>
        ELSE LET i  == CHOOSE m \in starts : \A k \in starts : m <= k
                 n  == RunEnd(s, i, NameChars)
                 x  == ExtraAt(s, n)
                 w  == RunEnd(s, x.end, SpaceChars)
                 c  == ConstraintAt(s, w)
             IN  << Slice(s, i, c.end), Slice(s, i, n), x.extra, c.op, c.version >>

NoRequirement == [Name |-> <<>>, Constraint |-> <<>>, Version |-> <<>>]

\* parseRequirement without the comparison of match[0] with the line
parseRequirement_Partial(str) ==
    LET s == TrimSpace(str)
        match == FindStringSubmatch(s)
    IN  IF Len(match) # 5 THEN [err |-> "length", req |-> NoRequirement]
        ELSE [err |-> "nil",
              req |-> [Name |-> match[2], Constraint |-> match[4], Version |-> match[5]]]

parseRequirement(str) ==
    LET s == TrimSpace(str)
        match == FindStringSubmatch(s)
    IN  IF Len(match) # 5 THEN [err |-> "length", req |-> NoRequirement]
        ELSE IF match[1] # s THEN [err |-> "unable", req |-> NoRequirement]
        ELSE [err |-> "nil",
              req |-> [Name |-> match[2], Constraint |-> match[4], Version |-> match[5]]]

----------------------------------------------------------------------------
(* tarRegexp and lastTar *)

\* A path is a sequence of segments: "p" stands for a run of characters of
\* [/A-Za-z0-9\._-] that holds no ".tar.gz", TARGZ for the literal ".tar.gz"
\* (whose characters are all of that class too).
TARGZ == ".tar.gz"
PathSegs == {"p", TARGZ}

\* tarRegexp.MatchString(path): [/A-Za-z0-9\._-]+\.tar\.gz matches somewhere,
\* the regexp being unanchored
tarRegexpMatch(path) ==
    \E k \in 2..Len(path) : path[k] = TARGZ

RECURSIVE lastTarFrom(_, _)
lastTarFrom(fs, f) ==
    IF f < 1 THEN <<>>
    ELSE IF tarRegexpMatch(fs[f]) THEN fs[f]
    ELSE lastTarFrom(fs, f - 1)

lastTar(fs) == lastTarFrom(fs, Len(fs))

----------------------------------------------------------------------------
(* NewPyPIGraph *)

\* strings.Split(s, sep) for a one-character sep
RECURSIVE Split(_, _)
Split(s, sep) ==
    IF \A k \in 1..Len(s) : s[k] # sep THEN <<s>>
    ELSE LET i == CHOOSE m \in 1..Len(s) :
                     s[m] = sep /\ \A k \in 1..(m - 1) : s[k] # sep
         IN  <<Slice(s, 1, i)>> \o Split(SubSeq(s, i + 1, Len(s)), sep)

\* strings.Contains(s, sep) for a one-character sep
Contains(s, sep) == \E k \in 1..Len(s) : s[k] = sep

\* if _, in := m[k]; !in { m[k] = make([]string, 0) }
EnsureSlot(m, k) == IF k \in DOMAIN m THEN m ELSE m @@ (k :> <<>>)

\* m[k] = append(m[k], v), the slot made first when it is absent
AppendSlot(m, k, v) == [EnsureSlot(m, k) EXCEPT ![k] = Append(@, v)]

\* the Req map after one line of the snapshot
ReqAfterLine(req, line) ==
    IF Contains(line, ":")
    THEN LET lineSplit == Split(line, ":")
         IN  IF Len(lineSplit) = 2
             THEN AppendSlot(req, lineSplit[1], lineSplit[2])
             ELSE req
    ELSE IF line # <<>> THEN EnsureSlot(req, line)
    ELSE req

\* ReqByAfterLine with a dependent recorded once only
ReqByAfterLine_Once(reqBy, line) ==
    IF Contains(line, ":")
    THEN LET lineSplit == Split(line, ":")
         IN  IF Len(lineSplit) = 2
             THEN IF /\ lineSplit[2] \in DOMAIN reqBy
                     /\ \E i \in 1..Len(reqBy[lineSplit[2]]) :
                           reqBy[lineSplit[2]][i] = lineSplit[1]
                  THEN reqBy
                  ELSE AppendSlot(reqBy, lineSplit[2], lineSplit[1])
             ELSE reqBy
    ELSE IF line # <<>> THEN EnsureSlot(reqBy, line)
    ELSE reqBy

\* the ReqBy map after one line of the snapshot
ReqByAfterLine(reqBy, line) ==
    IF Contains(line, ":")
    THEN LET lineSplit == Split(line, ":")
         IN  IF Len(lineSplit) = 2
             THEN AppendSlot(reqBy, lineSplit[2], lineSplit[1])
             ELSE reqBy
    ELSE IF line # <<>> THEN EnsureSlot(reqBy, line)
    ELSE reqBy

----------------------------------------------------------------------------
(* Specification of the requirement parser alone *)

ReqAlphabet == {"a", "1", "[", "]", " ", "=", ">"}

Unset == [err |-> "unset", req |-> NoRequirement]

LastTarIdle == files = <<>> /\ tarPath = <<"unset">>
GraphIdle == Req = <<>> /\ ReqBy = <<>> /\ snapshot = <<>> /\ loaded = FALSE
UntarIdle ==
    /\ archive = [get |-> "ok", gzip |-> "ok", entries |-> <<>>, ending |-> "eof"]
    /\ tpos = 1 /\ data = <<>> /\ matched = FALSE /\ tpc = "idle"
    /\ tout = [kind |-> "none", data |-> <<>>]
RepoIdle ==
    /\ rpkg = "" /\ rfetch = [err |-> FALSE, lines |-> <<>>]
    /\ rout = [uri |-> <<"unset">>, err |-> "nil", text |-> <<>>]
ParseIdle == reqStr = <<>> /\ parseOut = Unset
NoCall == [pkg |-> "", fetched |-> FALSE, text |-> <<>>, err |-> "none",
           reqs |-> <<>>, out |-> <<>>, diag |-> <<>>]
PipeIdle ==
    /\ cap = 1 /\ src = <<>> /\ curl = "exited" /\ p1 = <<>> /\ cp = "done"
    /\ cbuf = <<>> /\ inOpen = FALSE /\ outOpen = FALSE /\ p2 = <<>>
    /\ tar = "exited" /\ tpend = <<>> /\ p3 = <<>> /\ tarOutput = <<>>
    /\ cpc = "idle" /\ srcLen = 0 /\ forwarded = 0 /\ tarAborted = FALSE
CrawlIdle ==
    /\ mpc = "idle" /\ pkgs = <<>> /\ idx = 1 /\ attempted = <<>>
    /\ stdout = <<>> /\ stderr = <<>> /\ exitStatus = 0 /\ lastCall = NoCall
    /\ PipeIdle

InitParse ==
    /\ reqStr \in SeqsUpTo(ReqAlphabet, MaxReqLen)
    /\ parseOut = Unset
    /\ LastTarIdle /\ GraphIdle /\ UntarIdle /\ RepoIdle /\ CrawlIdle

Parse ==
    /\ parseOut = Unset
    /\ parseOut' = parseRequirement(reqStr)
    /\ UNCHANGED <<reqStr, OthersParse>>

NextParse == Parse

SpecParse == InitParse /\ [][NextParse]_vars

(* The grammar of a requirement line, stated on its own:                   *)
(*   name [ '[' extra ']' ] [ ws* ('=='|'>='|'>') ws* version ]            *)
AllIn(s, i, j, S) == \A k \in i..(j - 1) : s[k] \in S

IsExtraPart(s, i, j) ==
    \/ j = i
    \/ /\ j - i >= 3
       /\ s[i] = "["
       /\ s[j - 1] = "]"
       /\ AllIn(s, i + 1, j - 1, NameChars)

IsConstraintPart(s, i) ==
    \/ i = Len(s) + 1
    \/ \E o \in i..Len(s) : \E o2 \in (o + 1)..Len(s) : \E v \in o2..Len(s) :
          /\ AllIn(s, i, o, SpaceChars)
          /\ Slice(s, o, o2) \in {<<"=", "=">>, <<">", "=">>, <<">">>}
          /\ AllIn(s, o2, v, SpaceChars)
          /\ AllIn(s, v, Len(s) + 1, VersionChars)

MatchesGrammar(s) ==
    \E n \in 2..(Len(s) + 1) : \E x \in n..(Len(s) + 1) :
        /\ AllIn(s, 1, n, NameChars)
        /\ IsExtraPart(s, n, x)
        /\ IsConstraintPart(s, x)

\* C5: parseRequirement succeeds exactly on the lines that, trimmed, match the
\* grammar as a whole; a failure returns no Requirement; and a returned
\* Requirement has Constraint empty exactly when Version is empty.
C5_WholeLineGrammar ==
    parseOut # Unset =>
        /\ (parseOut.err = "nil") <=> MatchesGrammar(TrimSpace(reqStr))
        /\ parseOut.err # "nil" => parseOut.req = NoRequirement
        /\ parseOut.err = "nil" =>
              ((parseOut.req.Constraint = <<>>) <=> (parseOut.req.Version = <<>>))

\* a line whose proper prefix is a requirement with a constraint (a>1>1) was
\* given to the parser and rejected
C5_Witness ==
    /\ parseOut.err = "unable"
    /\ FindStringSubmatch(TrimSpace(reqStr))[4] # <<>>
    /\ TrimSpace(reqStr) # reqStr

\* re-rendering of a parsed Requirement; the Requirement struct has the
\* fields Name, Constraint and Version only
Render(req) == req.Name \o req.Constraint \o req.Version

\* whitespace normalisation of a line: its whitespace removed
Normalize(s) == SelectSeq(s, LAMBDA c : c \notin SpaceChars)

\* C6: for every line the parser accepts, re-rendering the parsed Requirement
\* gives the line back up to whitespace (so an extra is carried by it).
C6_RoundTrip ==
    (parseOut # Unset /\ parseOut.err = "nil") =>
        Render(parseOut.req) = Normalize(reqStr)

----------------------------------------------------------------------------
(* Specification of lastTar alone *)

\* pkgFiles builds every path as Clean(Join("/simple/<pkg>", href)): a path
\* starts with characters of the class
Paths == {<<"p">> \o t : t \in SeqsUpTo(PathSegs, 2)}

InitLastTar ==
    /\ files \in SeqsUpTo(Paths, MaxFiles)
    /\ tarPath = <<"unset">>
    /\ ParseIdle /\ GraphIdle /\ UntarIdle /\ RepoIdle /\ CrawlIdle

SelectSourceArtifact ==
    /\ tarPath = <<"unset">>
    /\ tarPath' = lastTar(files)
    /\ UNCHANGED <<files, OthersLastTar>>

NextLastTar == SelectSourceArtifact

SpecLastTar == InitLastTar /\ [][NextLastTar]_vars

EndsInTarGz(path) == path[Len(path)] = TARGZ

\* C8: lastTar returns the element of greatest index whose path ends in
\* .tar.gz, and the empty string when no element does; a path in which
\* .tar.gz is followed by more characters is never selected.
C8_LastTarGzSuffix ==
    tarPath # <<"unset">> =>
        LET ends == {f \in 1..Len(files) : EndsInTarGz(files[f])}
        IN  IF ends = {} THEN tarPath = <<>>
            ELSE tarPath = files[CHOOSE f \in ends : \A g \in ends : g <= f]

----------------------------------------------------------------------------
(* Specification of the snapshot loader *)

SnapshotChars == {"a", "b", ":"}
SnapshotLines == SeqsUpTo(SnapshotChars, MaxLineLen)

InitGraph ==
    /\ Req = <<>>
    /\ ReqBy = <<>>
    /\ snapshot = <<>>
    /\ loaded = FALSE
    /\ ParseIdle /\ LastTarIdle /\ UntarIdle /\ RepoIdle /\ CrawlIdle

\* one turn of the loop: reader.ReadLine() gives a line, which is ingested
LoadLine ==
    /\ ~loaded
    /\ Len(snapshot) < MaxLines
    /\ \E line \in SnapshotLines :
          /\ Req' = ReqAfterLine(Req, line)
          /\ ReqBy' = ReqByAfterLine(ReqBy, line)
          /\ snapshot' = Append(snapshot, line)
    /\ UNCHANGED <<loaded, OthersGraph>>

\* reader.ReadLine() fails (end of file): the loop breaks, the graph is returned
EndOfSnapshot ==
    /\ ~loaded
    /\ loaded' = TRUE
    /\ UNCHANGED <<Req, ReqBy, snapshot, OthersGraph>>

NextGraph == LoadLine \/ EndOfSnapshot

SpecGraph == InitGraph /\ [][NextGraph]_vars

\* the number of occurrences of v in m[k], none when m has no slot k
Count(m, k, v) ==
    IF k \in DOMAIN m THEN Cardinality({i \in 1..Len(m[k]) : m[k][i] = v}) ELSE 0

Names == DOMAIN Req \cup DOMAIN ReqBy

\* C1: after every line, each D occurs in Req[P] as often as P in ReqBy[D].
C1_Symmetry ==
    \A P \in Names : \A D \in Names : Count(Req, P, D) = Count(ReqBy, D, P)

\* the same edge was loaded twice
C1_Witness ==
    /\ \E P \in Names : \E D \in Names : P # D /\ Count(Req, P, D) = 2

\* the packages a snapshot mentions: both ends of each edge line and each
\* isolated line
Mentioned ==
    UNION {LET line == snapshot[i]
           IN  IF Contains(line, ":")
               THEN IF Len(Split(line, ":")) = 2
                    THEN {Split(line, ":")[1], Split(line, ":")[2]}
                    ELSE {}
               ELSE IF line # <<>> THEN {line} ELSE {}
           : i \in 1..Len(snapshot)}

\* C2: every package mentioned by a loaded line is a key of Req and of ReqBy.
C2_EveryMentionedHasBothSlots ==
    \A p \in Mentioned : p \in DOMAIN Req /\ p \in DOMAIN ReqBy

----------------------------------------------------------------------------
(* remoteUntar *)

\* An archive as remoteUntar meets it: whether http.Get and gzip.NewReader
\* succeed, the entries the tar reader yields in order, and how the stream
\* ends: with the end-of-archive marker ("eof") or with a read failure
\* ("fail"). An entry has a name the pattern matches or not, a body, and
\* cut: the stream fails inside this entry's body.
Bodies == {<<"x">>, <<"y", "z">>}
Entries == [match : BOOLEAN, body : Bodies, cut : BOOLEAN]
Archives ==
    [get : {"ok", "err"}, gzip : {"ok", "err"},
     entries : SeqsUpTo(Entries, MaxEntries), ending : {"eof", "fail"}]

\* the stream has failed before the header at position i is read
BrokenBefore(a, i) == \E k \in 1..(i - 1) : k <= Len(a.entries) /\ a.entries[k].cut

\* tr.Next() at position i: "hdr" (a header, err nil), "EOF" (io.EOF) or
\* "err" (another error, hdr nil)
TarNext(a, i) ==
    IF BrokenBefore(a, i) THEN "err"
    ELSE IF i <= Len(a.entries) THEN "hdr"
    ELSE IF a.ending = "eof" THEN "EOF"
    ELSE "err"

\* what io.Copy(buf, tr) leaves in buf: the whole body, or the part read
\* before the stream failed (io.Copy's error is dropped)
CopiedBody(e) == IF e.cut THEN SubSeq(e.body, 1, Len(e.body) - 1) ELSE e.body

InitUntar ==
    /\ archive \in Archives
    /\ tpos = 1 /\ data = <<>> /\ matched = FALSE /\ tpc = "get"
    /\ tout = [kind |-> "none", data |-> <<>>]
    /\ ParseIdle /\ LastTarIdle /\ GraphIdle /\ RepoIdle /\ CrawlIdle

\* resp, err := http.Get(uri)
UntarGet ==
    /\ tpc = "get"
    /\ IF archive.get = "err"
       THEN tpc' = "done" /\ tout' = [kind |-> "error", data |-> <<>>]
       ELSE tpc' = "gunzip" /\ tout' = tout
    /\ UNCHANGED <<archive, tpos, data, matched, OthersUntar>>

\* gunzipped, err := gzip.NewReader(resp.Body)
UntarGunzip ==
    /\ tpc = "gunzip"
    /\ IF archive.gzip = "err"
       THEN tpc' = "done" /\ tout' = [kind |-> "error", data |-> <<>>]
       ELSE tpc' = "scan" /\ tout' = tout
    /\ UNCHANGED <<archive, tpos, data, matched, OthersUntar>>

\* one turn of the loop: hdr, err := tr.Next(); io.EOF breaks; otherwise
\* hdr.Name is read, which panics when hdr is nil
UntarScan ==
    /\ tpc = "scan"
    /\ LET r == TarNext(archive, tpos)
       IN  \/ /\ r = "EOF"
              /\ tpc' = "after"
              /\ UNCHANGED <<tpos, data, matched, tout>>
           \/ /\ r = "err"
              /\ tpc' = "done"
              /\ tout' = [kind |-> "panic", data |-> <<>>]
              /\ UNCHANGED <<tpos, data, matched>>
           \/ /\ r = "hdr"
              /\ IF archive.entries[tpos].match
                 THEN /\ data' = data \o CopiedBody(archive.entries[tpos])
                      /\ matched' = TRUE
                 ELSE UNCHANGED <<data, matched>>
              /\ tpos' = tpos + 1
              /\ UNCHANGED <<tpc, tout>>
    /\ UNCHANGED <<archive, OthersUntar>>

\* after the loop: if !matched { return nil, error } ; return data, nil
UntarReturn ==
    /\ tpc = "after"
    /\ tpc' = "done"
    /\ tout' = IF ~matched THEN [kind |-> "nomatch", data |-> <<>>]
                ELSE [kind |-> "bytes", data |-> data]
    /\ UNCHANGED <<archive, tpos, data, matched, OthersUntar>>

NextUntar == UntarGet \/ UntarGunzip \/ UntarScan \/ UntarReturn

SpecUntar == InitUntar /\ [][NextUntar]_vars

\* the contents of the matching entries of an archive, in archive order
RECURSIVE MatchingBytes(_)
MatchingBytes(es) ==
    IF es = <<>> THEN <<>>
    ELSE (IF Head(es).match THEN Head(es).body ELSE <<>>) \o MatchingBytes(Tail(es))

\* the stream can be read through to its end marker
Intact(a) ==
    /\ a.get = "ok" /\ a.gzip = "ok" /\ a.ending = "eof"
    /\ \A k \in 1..Len(a.entries) : ~a.entries[k].cut

\* C7: a finished call has one of three outcomes: the bytes of all matching
\* entries of an archive read to its end marker, "no match" for an archive
\* read to its end marker without a match, or a transport error for a
\* stream that failed before the marker; never a crash.
C7_ThreeOutcomes ==
    tpc = "done" =>
        /\ tout.kind \in {"bytes", "nomatch", "error"}
        /\ tout.kind = "bytes" =>
              /\ Intact(archive)
              /\ \E k \in 1..Len(archive.entries) : archive.entries[k].match
              /\ tout.data = MatchingBytes(archive.entries)
        /\ tout.kind = "nomatch" =>
              /\ Intact(archive)
              /\ \A k \in 1..Len(archive.entries) : ~archive.entries[k].match
        /\ tout.kind = "error" => ~Intact(archive)

----------------------------------------------------------------------------
(* FetchSourceRepoURI *)

\* A PKG-INFO text is a sequence of lines. A line is "Home-page: <uri>\n" with
\* uri = https://<host>/<owner>/<repo><rest>, or (host "none") a line of
\* another field. A uri is kept as its two parts: base and rest.
Hosts == {"github.com", "bitbucket.org", "code.google.com", "example.com", "none"}
Rests == {"", "/issues"}
MetaLines == [host : Hosts, rest : Rests]

\* the hosts of repoPatterns, in order
repoPatterns == <<"github.com", "bitbucket.org", "code.google.com">>

\* the first capture of a pattern on a line it matches: the uri up to and
\* without the trailing path
BaseURI(line) == <<"https://", line.host, "/owner/repo">>

\* the capture of homepageRegexp on a line it matches: the rest of the line
FullURI(line) == <<"https://", line.host, "/owner/repo", line.rest>>

\* pattern.FindStringSubmatch(rawMetadata) for the pattern of host h: the
\* leftmost match, as <<match[1]>>, or <<>> (nil)
FindRepo(lines, h) ==
    LET hits == {i \in 1..Len(lines) : lines[i].host = h}
    IN  IF hits = {} THEN <<>>
        ELSE <<BaseURI(lines[CHOOSE i \in hits : \A j \in hits : i <= j])>>

\* homepageRegexp.FindStringSubmatch(rawMetadata)
FindHomepage(lines) ==
    LET hits == {i \in 1..Len(lines) : lines[i].host # "none"}
    IN  IF hits = {} THEN <<>>
        ELSE <<FullURI(lines[CHOOSE i \in hits : \A j \in hits : i <= j])>>

\* the keys of pypiRepos a package of the model can have, and their values
pypiRepos == [flask |-> "github.com/mitsuhiko/flask"]

\* the external normalizer: lower case
NormalizedPkgName(pkg) == IF pkg = "Flask" THEN "flask" ELSE pkg

RepoPkgs == {"flask", "Flask", "unlisted"}

\* the patterns from the n-th on, tried in order against the metadata
RECURSIVE FirstRepoMatch(_, _)
FirstRepoMatch(lines, n) ==
    IF n > Len(repoPatterns) THEN <<>>
    ELSE IF Len(FindRepo(lines, repoPatterns[n])) >= 1 THEN FindRepo(lines, repoPatterns[n])
    ELSE FirstRepoMatch(lines, n + 1)

\* what the function returns when FetchRawMetadata fails
FetchFailed == [uri |-> <<>>, err |-> "nil", text |-> <<>>]

FetchSourceRepoURI(pkg, fetch) ==
    IF fetch.err THEN FetchFailed
    ELSE IF FirstRepoMatch(fetch.lines, 1) # <<>>
         THEN [uri |-> FirstRepoMatch(fetch.lines, 1)[1], err |-> "nil", text |-> <<>>]
    ELSE IF NormalizedPkgName(pkg) \in DOMAIN pypiRepos
         THEN [uri |-> <<"https://", pypiRepos[NormalizedPkgName(pkg)]>>,
               err |-> "nil", text |-> <<>>]
    ELSE IF Len(FindHomepage(fetch.lines)) >= 1
         THEN [uri |-> <<>>, err |-> "Could not parse repo URI from homepage",
               text |-> FindHomepage(fetch.lines)[1]]
    ELSE [uri |-> <<>>, err |-> "No homepage found in metadata", text |-> fetch.lines]

InitRepo ==
    /\ rpkg \in RepoPkgs
    /\ rfetch \in [err : BOOLEAN, lines : SeqsUpTo(MetaLines, MaxMetaLines)]
    /\ rfetch.err => rfetch.lines = <<>>
    /\ rout = [uri |-> <<"unset">>, err |-> "nil", text |-> <<>>]
    /\ ParseIdle /\ LastTarIdle /\ GraphIdle /\ UntarIdle /\ CrawlIdle

Resolve ==
    /\ rout.uri = <<"unset">>
    /\ rout' = FetchSourceRepoURI(rpkg, rfetch)
    /\ UNCHANGED <<rpkg, rfetch, OthersRepo>>

NextRepo == Resolve

SpecRepo == InitRepo /\ [][NextRepo]_vars

\* the outcome the ordered steps of the resolver prescribe for a metadata text
HasHost(lines, h) == \E i \in 1..Len(lines) : lines[i].host = h

\* C9: a call returns a non-empty URI and no error, or an error; a failed
\* metadata fetch gives an error; on a successful fetch the first step that
\* succeeds decides: github, bitbucket, legacy host, override table, then the
\* two failure messages.
C9_UriOrError ==
    rout.uri # <<"unset">> =>
        /\ (rout.uri # <<>> /\ rout.err = "nil") \/ rout.err # "nil"
        /\ rfetch.err => rout.err # "nil"
        /\ ~rfetch.err =>
              IF HasHost(rfetch.lines, "github.com")
              THEN rout.err = "nil" /\ rout.uri[2] = "github.com"
              ELSE IF HasHost(rfetch.lines, "bitbucket.org")
              THEN rout.err = "nil" /\ rout.uri[2] = "bitbucket.org"
              ELSE IF HasHost(rfetch.lines, "code.google.com")
              THEN rout.err = "nil" /\ rout.uri[2] = "code.google.com"
              ELSE IF rpkg \in {"flask", "Flask"}
              THEN rout.err = "nil" /\ rout.uri = <<"https://", "github.com/mitsuhiko/flask">>
              ELSE IF HasHost(rfetch.lines, "example.com")
              THEN rout.err = "Could not parse repo URI from homepage"
              ELSE rout.err = "No homepage found in metadata"

----------------------------------------------------------------------------
(* fetchRequires: the text of the requirements file to a requirement list *)

\* ParseAll with a line that fails to parse passed over
RECURSIVE ParseAll_SkipBad(_, _)
ParseAll_SkipBad(reqStrs, reqs) ==
    IF reqStrs = <<>> THEN [err |-> "nil", reqs |-> reqs, note |-> FALSE]
    ELSE LET r == parseRequirement(Head(reqStrs))
         IN  IF r.err # "nil" THEN ParseAll_SkipBad(Tail(reqStrs), reqs)
             ELSE ParseAll_SkipBad(Tail(reqStrs), Append(reqs, r.req))

\* the loop over reqStrs: the requirements in order, or the first error and
\* no list
RECURSIVE ParseAll(_, _)
ParseAll(reqStrs, reqs) ==
    IF reqStrs = <<>> THEN [err |-> "nil", reqs |-> reqs, note |-> FALSE]
    ELSE LET r == parseRequirement(Head(reqStrs))
         IN  IF r.err # "nil" THEN [err |-> "error", reqs |-> <<>>, note |-> FALSE]
             ELSE ParseAll(Tail(reqStrs), Append(reqs, r.req))

\* lines 217-232: note is the "[requires.txt] no requires.txt found" report
ParseRequires(output) ==
    LET rawReqs == TrimSpace(output)
    IN  IF rawReqs = <<>> THEN [err |-> "nil", reqs |-> <<>>, note |-> TRUE]
        ELSE ParseAll(Split(rawReqs, "\n"), <<>>)

\* what main prints for a package whose requirements it got: the package,
\* then the name of each requirement
Printed(pkg, reqs) == <<[pkg |-> pkg]>> \o [i \in 1..Len(reqs) |-> [name |-> reqs[i].Name]]

----------------------------------------------------------------------------
(* One extraction: curl | copy task | tar | ReadAll, and the two Waits *)

\* A download is a sequence of chunks. A chunk is bytes of the archive that
\* give no output ("junk") or a line of a matching requires.txt, which tar
\* writes to its standard output when it has read the chunk.
ReqLines == {<<"a">>, <<"a", ">">>, <<>>}
Chunks == {[kind |-> "junk", line |-> <<>>]} \cup [kind : {"line"}, line : ReqLines]
Streams == SeqsUpTo(Chunks, MaxSrc)

\* the state of the pipeline when fetchRequires has started both processes
\* and the copy task on a download
PipeStarts(stream) ==
    /\ src' = stream /\ srcLen' = Len(stream) /\ curl' = "run" /\ p1' = <<>>
    /\ cp' = "read" /\ cbuf' = <<>> /\ inOpen' = TRUE /\ outOpen' = TRUE
    /\ p2' = <<>> /\ tar' = "run" /\ tpend' = <<>> /\ p3' = <<>>
    /\ tarOutput' = <<>> /\ cpc' = "readall" /\ forwarded' = 0
    /\ tarAborted' = FALSE
    /\ UNCHANGED cap

\* the state of the pipeline when fetchRequires has returned: both processes
\* have exited and were waited for, the pipes of the call are closed
PipeGone ==
    /\ src' = <<>> /\ srcLen' = 0 /\ curl' = "exited" /\ p1' = <<>>
    /\ cp' = "done" /\ cbuf' = <<>> /\ inOpen' = FALSE /\ outOpen' = FALSE
    /\ p2' = <<>> /\ tar' = "exited" /\ tpend' = <<>> /\ p3' = <<>>
    /\ tarOutput' = <<>> /\ cpc' = "idle" /\ forwarded' = 0
    /\ tarAborted' = FALSE
    /\ UNCHANGED cap

\* curl writes the next chunk of the download to its standard output
CurlWrite ==
    /\ curl = "run" /\ src # <<>> /\ Len(p1) < cap
    /\ p1' = Append(p1, Head(src))
    /\ src' = Tail(src)
    /\ UNCHANGED <<cap, curl, cp, cbuf, inOpen, outOpen, p2, tar, tpend, p3,
                   tarOutput, cpc, srcLen, forwarded, tarAborted, mainVars, OthersCrawl>>

\* curl has written the whole download and exits
CurlExit ==
    /\ curl = "run" /\ src = <<>>
    /\ curl' = "exited"
    /\ UNCHANGED <<cap, src, p1, cp, cbuf, inOpen, outOpen, p2, tar, tpend, p3,
                   tarOutput, cpc, srcLen, forwarded, tarAborted, mainVars, OthersCrawl>>

\* io.Copy reads a chunk from curlOut
CopyRead ==
    /\ cp = "read" /\ outOpen /\ p1 # <<>>
    /\ cbuf' = <<Head(p1)>>
    /\ p1' = Tail(p1)
    /\ cp' = "write"
    /\ UNCHANGED <<cap, src, curl, inOpen, outOpen, p2, tar, tpend, p3,
                   tarOutput, cpc, srcLen, forwarded, tarAborted, mainVars, OthersCrawl>>

\* io.Copy's read ends: end of file (curl has exited, the pipe is empty), or
\* an error because curl.Wait has closed curlOut
CopyReadEnds ==
    /\ cp = "read"
    /\ (p1 = <<>> /\ curl = "exited") \/ ~outOpen
    /\ cp' = "close"
    /\ UNCHANGED <<cap, src, curl, p1, cbuf, inOpen, outOpen, p2, tar, tpend, p3,
                   tarOutput, cpc, srcLen, forwarded, tarAborted, mainVars, OthersCrawl>>

\* io.Copy writes the chunk it holds to tarIn
CopyWrite ==
    /\ cp = "write" /\ inOpen /\ tar = "run" /\ Len(p2) < cap
    /\ p2' = Append(p2, cbuf[1])
    /\ cbuf' = <<>>
    /\ forwarded' = forwarded + 1
    /\ cp' = "read"
    /\ UNCHANGED <<cap, src, curl, p1, inOpen, outOpen, tar, tpend, p3,
                   tarOutput, cpc, srcLen, tarAborted, mainVars, OthersCrawl>>

\* io.Copy's write fails (tar has exited, or tar.Wait has closed tarIn):
\* io.Copy returns with the chunk unwritten
CopyWriteFails ==
    /\ cp = "write"
    /\ tar = "exited" \/ ~inOpen
    /\ cbuf' = <<>>
    /\ cp' = "close"
    /\ UNCHANGED <<cap, src, curl, p1, inOpen, outOpen, p2, tar, tpend, p3,
                   tarOutput, cpc, srcLen, forwarded, tarAborted, mainVars, OthersCrawl>>

\* tarIn.Close()
CopyClose ==
    /\ cp = "close"
    /\ inOpen' = FALSE
    /\ cp' = "done"
    /\ UNCHANGED <<cap, src, curl, p1, cbuf, outOpen, p2, tar, tpend, p3,
                   tarOutput, cpc, srcLen, forwarded, tarAborted, mainVars, OthersCrawl>>

\* tar reads a chunk from its standard input
TarRead ==
    /\ tar = "run" /\ tpend = <<>> /\ p2 # <<>>
    /\ p2' = Tail(p2)
    /\ tpend' = IF Head(p2).kind = "line" THEN <<Head(p2).line>> ELSE <<>>
    /\ UNCHANGED <<cap, src, curl, p1, cp, cbuf, inOpen, outOpen, tar, p3,
                   tarOutput, cpc, srcLen, forwarded, tarAborted, mainVars, OthersCrawl>>

\* tar writes a line of the matching entry to its standard output
TarWrite ==
    /\ tar = "run" /\ tpend # <<>> /\ Len(p3) < cap
    /\ p3' = Append(p3, tpend[1])
    /\ tpend' = <<>>
    /\ UNCHANGED <<cap, src, curl, p1, cp, cbuf, inOpen, outOpen, p2, tar,
                   tarOutput, cpc, srcLen, forwarded, tarAborted, mainVars, OthersCrawl>>

\* tar reads end of file on its standard input and exits
TarExit ==
    /\ tar = "run" /\ tpend = <<>> /\ p2 = <<>> /\ ~inOpen
    /\ tar' = "exited"
    /\ UNCHANGED <<cap, src, curl, p1, cp, cbuf, inOpen, outOpen, p2, tpend, p3,
                   tarOutput, cpc, srcLen, forwarded, tarAborted, mainVars, OthersCrawl>>

\* tar exits before the end of its input: it rejects its options or the
\* stream is not an archive it can read
TarAbort ==
    /\ tar = "run"
    /\ inOpen \/ p2 # <<>> \/ tpend # <<>>
    /\ tar' = "exited"
    /\ tpend' = <<>>
    /\ tarAborted' = TRUE
    /\ UNCHANGED <<cap, src, curl, p1, cp, cbuf, inOpen, outOpen, p2, p3,
                   tarOutput, cpc, srcLen, forwarded, mainVars, OthersCrawl>>

\* ioutil.ReadAll(tarOut) reads a line
ReadAllReads ==
    /\ cpc = "readall" /\ p3 # <<>>
    /\ tarOutput' = tarOutput \o Head(p3) \o <<"\n">>
    /\ p3' = Tail(p3)
    /\ UNCHANGED <<cap, src, curl, p1, cp, cbuf, inOpen, outOpen, p2, tar, tpend,
                   cpc, srcLen, forwarded, tarAborted, mainVars, OthersCrawl>>

\* ioutil.ReadAll(tarOut) reads end of file and returns
ReadAllEnds ==
    /\ cpc = "readall" /\ p3 = <<>> /\ tar = "exited"
    /\ cpc' = "waitcurl"
    /\ UNCHANGED <<cap, src, curl, p1, cp, cbuf, inOpen, outOpen, p2, tar, tpend, p3,
                   tarOutput, srcLen, forwarded, tarAborted, mainVars, OthersCrawl>>

\* curl.Wait() returns: curl has exited; Wait then closes curlOut
WaitCurl ==
    /\ cpc = "waitcurl" /\ curl = "exited"
    /\ outOpen' = FALSE
    /\ cpc' = "waittar"
    /\ UNCHANGED <<cap, src, curl, p1, cp, cbuf, inOpen, p2, tar, tpend, p3,
                   tarOutput, srcLen, forwarded, tarAborted, mainVars, OthersCrawl>>

\* tar.Wait() returns: tar has exited; Wait then closes tarIn
WaitTar ==
    /\ cpc = "waittar" /\ tar = "exited"
    /\ inOpen' = FALSE
    /\ cpc' = "parse"
    /\ UNCHANGED <<cap, src, curl, p1, cp, cbuf, outOpen, p2, tar, tpend, p3,
                   tarOutput, srcLen, forwarded, tarAborted, mainVars, OthersCrawl>>

NextPipe ==
    \/ CurlWrite \/ CurlExit
    \/ CopyRead \/ CopyReadEnds \/ CopyWrite \/ CopyWriteFails \/ CopyClose
    \/ TarRead \/ TarWrite \/ TarExit \/ TarAbort
    \/ ReadAllReads \/ ReadAllEnds \/ WaitCurl \/ WaitTar


\* a participant is blocked: it runs and its next read or write cannot go on
CurlBlocked == curl = "run" /\ src # <<>> /\ Len(p1) >= cap
CopyBlocked ==
    \/ cp = "read" /\ outOpen /\ p1 = <<>> /\ curl = "run"
    \/ cp = "write" /\ inOpen /\ tar = "run" /\ Len(p2) >= cap
TarBlocked ==
    /\ tar = "run"
    /\ \/ tpend # <<>> /\ Len(p3) >= cap
       \/ tpend = <<>> /\ p2 = <<>> /\ inOpen
ReaderBlocked == cpc = "readall" /\ p3 = <<>> /\ tar = "run"

\* before ReadAll has seen the end of tar's output, all four are blocked
DeadlockBeforeEOF ==
    /\ ReaderBlocked
    /\ curl = "exited" \/ CurlBlocked
    /\ cp = "done" \/ CopyBlocked
    /\ TarBlocked

\* the caller sits in ReadAll or in a Wait and no step of anyone can happen
CallerStuck == cpc \in {"readall", "waitcurl", "waittar"} /\ ~ENABLED NextPipe

\* C10: in one extraction no state has everyone blocked before the reader
\* saw the end of output; tarIn is closed only after every chunk of the
\* download was forwarded; and the caller always comes to return from
\* ReadAll and from both Waits (it is never left with no step to wait for).
C10_PipelineCompletes ==
    /\ ~DeadlockBeforeEOF
    /\ cp = "done" => forwarded = srcLen
    /\ ~CallerStuck

\* the part of C10 that the code keeps: nobody-can-move states never occur
\* before the end of tar's output
NoDeadlockBeforeEOF == ~DeadlockBeforeEOF

\* with a tar that reads its input to the end, the rest of C10 holds too
CompletesWhenTarReadsAll ==
    ~tarAborted => (cp = "done" => forwarded = srcLen) /\ ~CallerStuck

\* the caller waits for curl for ever: curl cannot write, nobody reads
HangInWaitCurl == cpc = "waitcurl" /\ CurlBlocked /\ cp = "done"

----------------------------------------------------------------------------
(* main and PackageRequirements *)

PkgNames == {"p", "q"}
PkgLists == SeqsUpTo(PkgNames, MaxPkgs)

\* the file lists pkgFiles can give: none, a zip only, a tar.gz, both
ZipPath == <<"p">>
TgzPath == <<"p", TARGZ>>
FileLists == {<<>>, <<ZipPath>>, <<TgzPath>>, <<TgzPath, ZipPath>>}

\* main is given (reqs, err) for package pkg: it reports the error, or prints
\* the package and the names of its requirements; then the loop goes on
MainHandles(pkg, fetched, text, r, diag) ==
    /\ IF r.err # "nil"
       THEN /\ stderr' = stderr \o diag \o <<[tag |-> "[ERROR]", pkg |-> pkg]>>
            /\ stdout' = stdout
            /\ lastCall' = [pkg |-> pkg, fetched |-> fetched, text |-> text,
                            err |-> r.err, reqs |-> r.reqs, out |-> <<>>,
                            diag |-> diag \o <<[tag |-> "[ERROR]", pkg |-> pkg]>>]
       ELSE /\ stderr' = stderr \o diag
            /\ stdout' = stdout \o Printed(pkg, r.reqs)
            /\ lastCall' = [pkg |-> pkg, fetched |-> fetched, text |-> text,
                            err |-> r.err, reqs |-> r.reqs,
                            out |-> Printed(pkg, r.reqs), diag |-> diag]
    /\ idx' = idx + 1

\* pkgs, err := p.AllPackages(): an error is fatal
ListPackages ==
    /\ mpc = "start"
    /\ \/ /\ stderr' = Append(stderr, [tag |-> "[FATAL]", pkg |-> ""])
          /\ exitStatus' = 1
          /\ mpc' = "exit"
          /\ UNCHANGED pkgs
       \/ /\ pkgs' \in PkgLists
          /\ mpc' = "loop"
          /\ UNCHANGED <<stderr, exitStatus>>
    /\ UNCHANGED <<idx, attempted, stdout, lastCall, pipeVars, OthersCrawl>>

\* p.PackageRequirements(pkg) up to its return or to the start of the
\* extraction: pkgFiles fails, gives no files, gives no tar.gz, or gives one
AttemptPackage ==
    /\ mpc = "loop" /\ idx <= Len(pkgs)
    /\ attempted' = Append(attempted, pkgs[idx])
    /\ \/ /\ MainHandles(pkgs[idx], FALSE, <<>>,
                          [err |-> "error", reqs |-> <<>>, note |-> FALSE], <<>>)
          /\ UNCHANGED <<mpc, pipeVars>>
       \/ \E fs \in FileLists :
            IF Len(fs) = 0
            THEN /\ MainHandles(pkgs[idx], FALSE, <<>>,
                                [err |-> "nil", reqs |-> <<>>, note |-> FALSE],
                                <<[tag |-> "[no-files]", pkg |-> pkgs[idx]]>>)
                 /\ UNCHANGED <<mpc, pipeVars>>
            ELSE IF lastTar(fs) = <<>>
            THEN /\ MainHandles(pkgs[idx], FALSE, <<>>,
                                [err |-> "nil", reqs |-> <<>>, note |-> FALSE],
                                <<[tag |-> "[tarball]", pkg |-> pkgs[idx]]>>)
                 /\ UNCHANGED <<mpc, pipeVars>>
            ELSE /\ \E stream \in Streams : PipeStarts(stream)
                 /\ mpc' = "fetch"
                 /\ UNCHANGED <<idx, stdout, stderr, lastCall>>
    /\ UNCHANGED <<pkgs, exitStatus, OthersCrawl>>

\* fetchRequires after tar.Wait(): the output is parsed, the call returns,
\* and main handles what it returned
FetchReturns ==
    /\ mpc = "fetch" /\ cpc = "parse"
    /\ LET r == ParseRequires(tarOutput)
       IN  MainHandles(pkgs[idx], TRUE, tarOutput, r,
                       IF r.note THEN <<[tag |-> "[requires.txt]", pkg |-> pkgs[idx]]>>
                       ELSE <<>>)
    /\ mpc' = "loop"
    /\ PipeGone
    /\ UNCHANGED <<pkgs, attempted, exitStatus, OthersCrawl>>

\* one call of fetchRequires for the only package of a listing, from the
\* start of the processes to main's handling of what it returns, on any
\* download and any pipe capacity
InitFetch ==
    /\ cap \in 1..MaxCap
    /\ \E stream \in Streams :
          /\ src = stream /\ srcLen = Len(stream)
    /\ curl = "run" /\ p1 = <<>> /\ cp = "read" /\ cbuf = <<>>
    /\ inOpen = TRUE /\ outOpen = TRUE /\ p2 = <<>> /\ tar = "run"
    /\ tpend = <<>> /\ p3 = <<>> /\ tarOutput = <<>> /\ cpc = "readall"
    /\ forwarded = 0 /\ tarAborted = FALSE
    /\ mpc = "fetch" /\ pkgs = <<"p">> /\ idx = 1 /\ attempted = <<"p">>
    /\ stdout = <<>> /\ stderr = <<>> /\ exitStatus = 0 /\ lastCall = NoCall
    /\ ParseIdle /\ LastTarIdle /\ GraphIdle /\ UntarIdle /\ RepoIdle


NextFetch == NextPipe \/ FetchReturns

SpecFetch == InitFetch /\ [][NextFetch]_vars

\* the loop is over: main returns, the exit status is 0
MainReturns ==
    /\ mpc = "loop" /\ idx > Len(pkgs)
    /\ mpc' = "done"
    /\ UNCHANGED <<pkgs, idx, attempted, stdout, stderr, exitStatus, lastCall,
                   pipeVars, OthersCrawl>>

NextCrawl == ListPackages \/ AttemptPackage \/ NextPipe \/ FetchReturns \/ MainReturns

InitCrawl ==
    /\ mpc = "start" /\ pkgs = <<>> /\ idx = 1 /\ attempted = <<>>
    /\ stdout = <<>> /\ stderr = <<>> /\ exitStatus = 0 /\ lastCall = NoCall
    /\ cap = 1
    /\ src = <<>> /\ curl = "exited" /\ p1 = <<>> /\ cp = "done"
    /\ cbuf = <<>> /\ inOpen = FALSE /\ outOpen = FALSE /\ p2 = <<>>
    /\ tar = "exited" /\ tpend = <<>> /\ p3 = <<>> /\ tarOutput = <<>>
    /\ cpc = "idle" /\ srcLen = 0 /\ forwarded = 0 /\ tarAborted = FALSE
    /\ ParseIdle /\ LastTarIdle /\ GraphIdle /\ UntarIdle /\ RepoIdle

SpecCrawl == InitCrawl /\ [][NextCrawl]_vars

\* the lines fetchRequires parses: the trimmed output split at line ends
LinesOf(text) == Split(TrimSpace(text), "\n")

Parses(line) == parseRequirement(line).err = "nil"

\* C4: for a package whose requirements text was extracted, if a line fails
\* to parse the call gives an error and no list, and main emits the error
\* report and nothing else; otherwise the list has one requirement per
\* line, in order, and main prints the package and their names.
C4_AllOrNothing ==
    (lastCall.fetched /\ TrimSpace(lastCall.text) # <<>>) =>
        LET lines == LinesOf(lastCall.text)
        IN  IF \E i \in 1..Len(lines) : ~Parses(lines[i])
            THEN /\ lastCall.err # "nil"
                 /\ lastCall.reqs = <<>>
                 /\ lastCall.out = <<>>
                 /\ lastCall.diag = <<[tag |-> "[ERROR]", pkg |-> lastCall.pkg]>>
            ELSE /\ lastCall.err = "nil"
                 /\ Len(lastCall.reqs) = Len(lines)
                 /\ \A i \in 1..Len(lines) :
                       lastCall.reqs[i] = parseRequirement(lines[i]).req
                 /\ lastCall.out = Printed(lastCall.pkg, lastCall.reqs)
                 /\ lastCall.diag = <<>>

\* a text whose first line parses and whose second does not was handled
C4_Witness ==
    /\ lastCall.fetched
    /\ Len(LinesOf(lastCall.text)) >= 2
    /\ Parses(LinesOf(lastCall.text)[1])
    /\ ~Parses(LinesOf(lastCall.text)[2])
    /\ lastCall.err # "nil"

\* C3: once the listing succeeded the packages are attempted once each and
\* in list order whatever the earlier outcomes; the exit status is non-zero
\* only when the listing failed, and then nothing is attempted; and the run
\* always goes on to the next package until the list is done.
C3_EveryPackageAttempted ==
    /\ Len(attempted) <= Len(pkgs)
    /\ attempted = SubSeq(pkgs, 1, Len(attempted))
    /\ mpc = "done" => attempted = pkgs /\ exitStatus = 0
    /\ exitStatus # 0 <=> mpc = "exit"
    /\ mpc = "exit" => attempted = <<>>
    /\ mpc \notin {"done", "exit"} => ENABLED NextCrawl

\* the part of C3 that the code keeps
C3_OrderAndExitStatus ==
    /\ Len(attempted) <= Len(pkgs)
    /\ attempted = SubSeq(pkgs, 1, Len(attempted))
    /\ mpc = "done" => attempted = pkgs /\ exitStatus = 0
    /\ exitStatus # 0 <=> mpc = "exit"
    /\ mpc = "exit" => attempted = <<>>

====
